---- MODULE Spec2Model ----
(***************************************************************************)
(* Model of RTS_Data/FormattedData/BidDSJson/datamodel.py: the pydantic    *)
(* (v1) data models Generator, Network, Scenario and Model with their      *)
(* shared Config, BidDSJsonBaseModel.load / schema_json, load_data and the *)
(* serialize_model helpers, and of the way script.py drives them.          *)
(*                                                                         *)
(* Values are tagged records:                                              *)
(*   [k |-> "str",  s |-> <<chars>>]     a Python str                      *)
(*   [k |-> "num",  n |-> i]             a Python int                      *)
(*   [k |-> "bool", b |-> TRUE]          a Python bool                     *)
(*   [k |-> "null"]                      None                              *)
(*   [k |-> "list", items |-> <<v..>>]   a Python list                     *)
(*   [k |-> "map",  items |-> <<[key, val]..>>]  a dict, insertion ordered *)
(*   [k |-> "inst", type |-> T, items |-> <<[key, val]..>>]                *)
(*                                       an instance of model class T      *)
(***************************************************************************)
EXTENDS Integers, Sequences, FiniteSets, TLC

VARIABLES inst, last, cwd, stack, lastExit, misread, mode, ncalls

vars == <<inst, last, cwd, stack, lastExit, misread, mode, ncalls>>
valVars == <<inst, last>>
loadVars == <<cwd, stack, lastExit, misread, mode, ncalls>>

(***************************************************************************)
(* Bounds of the model.                                                    *)
(***************************************************************************)
MaxGens == 2
MaxDepth == 2
MaxCalls == 2

(***************************************************************************)
(* Value constructors and dict helpers.                                    *)
(***************************************************************************)
S(chars) == [k |-> "str", s |-> chars]
N(i) == [k |-> "num", n |-> i]
B(b) == [k |-> "bool", b |-> b]
Null == [k |-> "null"]
L(items) == [k |-> "list", items |-> items]
M(items) == [k |-> "map", items |-> items]
Inst(T, items) == [k |-> "inst", type |-> T, items |-> items]
KV(key, val) == [key |-> key, val |-> val]

Keys(items) == {items[i].key : i \in DOMAIN items}
Has(items, key) == key \in Keys(items)
Get(items, key) == items[CHOOSE i \in DOMAIN items : items[i].key = key].val

\* data[key] = val on an insertion-ordered dict: replace in place or append.
Put(items, key, val) ==
    IF Has(items, key)
    THEN [i \in DOMAIN items |-> IF items[i].key = key THEN KV(key, val) ELSE items[i]]
    ELSE Append(items, KV(key, val))

(***************************************************************************)
(* The field registry: the class bodies of the four models.                *)
(***************************************************************************)
EntityTypes == {"Generator", "Network", "Scenario", "Model"}

\* A pydantic ModelField: Field(title=...) gives no alias and no default, so
\* the alias is the name and the field is required.
FieldDesc(name, shape, type) ==
    [name |-> name, alias |-> name, alt_alias |-> FALSE, required |-> TRUE,
     shape |-> shape, type |-> type, title |-> name]

GeneratorFields == <<FieldDesc("uid", "singleton", "str"), FieldDesc("bus", "singleton", "str")>>
NetworkFields == <<FieldDesc("generators", "list", "Generator")>>
ScenarioFields == <<>>
ModelFields == <<FieldDesc("network", "singleton", "Network"), FieldDesc("scenario", "singleton", "Scenario")>>

Fields(T) ==
    CASE T = "Generator" -> GeneratorFields
      [] T = "Network" -> NetworkFields
      [] T = "Scenario" -> ScenarioFields
      [] T = "Model" -> ModelFields

FieldNames(T) == {Fields(T)[i].name : i \in DOMAIN Fields(T)}
FieldOf(T, name) == Fields(T)[CHOOSE i \in DOMAIN Fields(T) : Fields(T)[i].name = name]

\* class Config of BidDSJsonBaseModel, inherited by every model.
Config ==
    [title |-> "BidDSJsonModel", anystr_strip_whitespace |-> TRUE,
     validate_assignment |-> TRUE, validate_all |-> TRUE, extra |-> "forbid",
     use_enum_values |-> FALSE, arbitrary_types_allowed |-> TRUE,
     allow_population_by_field_name |-> TRUE]

(***************************************************************************)
(* Strings: str(int), str(bool) and str.strip().                           *)
(***************************************************************************)
Digits == <<"0", "1", "2", "3", "4", "5", "6", "7", "8", "9">>

RECURSIVE NatStr(_)
NatStr(n) == IF n < 10 THEN <<Digits[n + 1]>> ELSE NatStr(n \div 10) \o <<Digits[(n % 10) + 1]>>

IntStr(n) == IF n < 0 THEN <<"-">> \o NatStr(-n) ELSE NatStr(n)
BoolStr(b) == IF b THEN <<"T", "r", "u", "e">> ELSE <<"F", "a", "l", "s", "e">>

\* The characters str.strip() removes (those str.isspace() accepts), as far
\* as a string of this module can hold them: space, \t, \n, \r, \f, and,
\* written as the characters themselves, U+000B, U+001C..U+001F, U+0085,
\* U+00A0 and U+1680.  The remaining whitespace (U+2000..U+200A, U+2028,
\* U+2029, U+202F, U+205F, U+3000) cannot be written in a string of this
\* module and is outside the alphabet of the model.
Whitespace ==
    {" ", "\t", "\n", "\r", "\f", "", "", "", "", "", "", " ",
     " "}

IsSpace(c) == c \in Whitespace

RECURSIVE LStrip(_)
LStrip(s) == IF s # <<>> /\ IsSpace(Head(s)) THEN LStrip(Tail(s)) ELSE s

RECURSIVE RStrip(_)
RStrip(s) == IF s # <<>> /\ IsSpace(s[Len(s)]) THEN RStrip(SubSeq(s, 1, Len(s) - 1)) ELSE s

Strip(s) == RStrip(LStrip(s))

(***************************************************************************)
(* Validation errors: pydantic's (loc, type) pairs.  A loc is a sequence of *)
(* [f |-> field name] and [i |-> list index (0-based)] steps.              *)
(***************************************************************************)
F(name) == [f |-> name]
I(index) == [i |-> index]
Err(loc, type) == [loc |-> loc, type |-> type]
Prefix(loc, errors) == {Err(loc \o e.loc, e.type) : e \in errors}

Ok(value) == [ok |-> TRUE, value |-> value, errors |-> {}]
Bad(value, errors) == [ok |-> FALSE, value |-> value, errors |-> errors]

\* pydantic.validators.str_validator followed by anystr_strip_whitespace:
\* a str is kept, an int (bool included) becomes str(v), anything else is
\* a StrError.
\* (faulty variant: a strict str validator that converts nothing)
StrValidatorNoCoerce(v) ==
    IF v.k = "str"
    THEN Ok(S(IF Config.anystr_strip_whitespace THEN Strip(v.s) ELSE v.s))
    ELSE Bad(v, {Err(<<>>, "type_error.str")})

StrValidator(v) ==
    CASE v.k = "str" -> Ok(S(IF Config.anystr_strip_whitespace THEN Strip(v.s) ELSE v.s))
      [] v.k = "num" -> Ok(S(IF Config.anystr_strip_whitespace THEN Strip(IntStr(v.n)) ELSE IntStr(v.n)))
      [] v.k = "bool" -> Ok(S(IF Config.anystr_strip_whitespace THEN Strip(BoolStr(v.b)) ELSE BoolStr(v.b)))
      [] OTHER -> Bad(v, {Err(<<>>, "type_error.str")})

\* A str used as a keyword name: the characters joined.
RECURSIVE Join(_)
Join(chars) == IF chars = <<>> THEN "" ELSE chars[1] \o Join(Tail(chars))

\* A dict key (a keyword name) as a str value: its characters.
Chars(name) == [i \in 1..Len(name) |-> SubSeq(name, i, i)]

\* dict(value) as BaseModel.validate tries it on a value that is neither a
\* dict nor an instance of the class.  An instance of another model iterates
\* as its (name, value) pairs.  A list must hold items that each iterate to
\* exactly two elements: a 2-element list, a 2-character str, a dict of two
\* keys (its keys), an instance of two fields (two tuples; hashable only when
\* its values are).  A str iterates to 1-character strs, so only "" converts.
PairOf(x) ==
    CASE x.k = "list" /\ Len(x.items) = 2 -> [ok |-> TRUE, key |-> x.items[1], val |-> x.items[2]]
      [] x.k = "str" /\ Len(x.s) = 2 -> [ok |-> TRUE, key |-> S(<<x.s[1]>>), val |-> S(<<x.s[2]>>)]
      [] x.k = "map" /\ Len(x.items) = 2 ->
            [ok |-> TRUE, key |-> S(Chars(x.items[1].key)), val |-> S(Chars(x.items[2].key))]
      [] x.k = "inst" /\ Len(x.items) = 2 ->
            IF \A i \in DOMAIN x.items : x.items[i].val.k \in {"str", "num", "bool", "null"}
            THEN [ok |-> TRUE, key |-> [k |-> "tuple"], val |-> [k |-> "tuple"]]
            ELSE [ok |-> FALSE]
      [] OTHER -> [ok |-> FALSE]

RECURSIVE PairsToItems(_)
PairsToItems(pairs) ==
    IF pairs = <<>> THEN <<>>
    ELSE LET rest == PairsToItems(SubSeq(pairs, 1, Len(pairs) - 1))
             p == pairs[Len(pairs)]
         IN  Put(rest, p.key, p.val)

\* Result: [ok, strkeys, items]; strkeys is FALSE when a key is not a str, so
\* that cls(**d) raises TypeError (keywords must be strings).
DictOf(v) ==
    CASE v.k = "inst" -> [ok |-> TRUE, strkeys |-> TRUE, items |-> v.items]
      [] v.k = "str" ->
            IF v.s = <<>>
            THEN [ok |-> TRUE, strkeys |-> TRUE, items |-> <<>>]
            ELSE [ok |-> FALSE]
      [] v.k = "list" ->
            LET ps == [i \in DOMAIN v.items |-> PairOf(v.items[i])]
            IN  IF \E i \in DOMAIN ps : ~ps[i].ok
                THEN [ok |-> FALSE]
                ELSE IF \E i \in DOMAIN ps : ps[i].key.k \in {"list", "map", "inst"}
                THEN [ok |-> FALSE]
                ELSE IF \E i \in DOMAIN ps : ps[i].key.k # "str"
                THEN [ok |-> TRUE, strkeys |-> FALSE]
                ELSE [ok |-> TRUE, strkeys |-> TRUE,
                      items |-> PairsToItems([i \in DOMAIN ps |-> KV(Join(ps[i].key.s), ps[i].val)])]
      [] OTHER -> [ok |-> FALSE]

(***************************************************************************)
(* pydantic.main.validate_model, ModelField.validate and BaseModel.validate *)
(* under the Config above.                                                 *)
(***************************************************************************)
RECURSIVE ValidateModel(_, _)
RECURSIVE ValidateSingleton(_, _)

\* BaseModel.__init__: cls(**data); r is validate_model's outcome, and any
\* error raises ValidationError.
InitResult(T, data, r) ==
    IF r.errors = {} THEN Ok(Inst(T, r.items)) ELSE Bad(M(data), r.errors)

Construct(T, data) == InitResult(T, data, ValidateModel(T, data))

\* BaseModel.validate(value), the validator of a field whose type is a
\* model: an instance of the class is taken as it is, a dict is passed to
\* cls(**value), anything else goes through dict(value) first.
AsDict(v) ==
    IF v.k = "map" THEN [ok |-> TRUE, strkeys |-> TRUE, items |-> v.items] ELSE DictOf(v)

FromDict(T, v, d) ==
    IF ~d.ok THEN Bad(v, {Err(<<>>, "type_error.dict")})
    ELSE IF ~d.strkeys THEN Bad(v, {Err(<<>>, "type_error")})
    ELSE Construct(T, d.items)

ModelValidator(T, v) ==
    IF v.k = "inst" /\ v.type = T THEN Ok(v) ELSE FromDict(T, v, AsDict(v))

\* ModelField.validate for one value of the field's type: None is refused
\* (the fields are not Optional), then the type's validators run.
ValidateSingleton(type, v) ==
    IF v.k = "null" THEN Bad(v, {Err(<<>>, "type_error.none.not_allowed")})
    ELSE IF type = "str" THEN StrValidator(v)
    ELSE ModelValidator(type, v)

\* ModelField.validate: the None check, then by shape; a list field needs a
\* list and validates every element, collecting each element's errors under
\* its index.
Elements(fd, v) == IF fd.shape = "list" THEN v.items ELSE <<v>>

Collect(fd, v, rs) ==
    IF fd.shape # "list" THEN rs[1]
    ELSE IF \A i \in DOMAIN rs : rs[i].errors = {}
    THEN Ok(L([i \in DOMAIN rs |-> rs[i].value]))
    ELSE Bad(v, UNION {Prefix(<<I(i - 1)>>, rs[i].errors) : i \in DOMAIN rs})

FieldValidate(fd, v) ==
    IF v.k = "null" THEN Bad(v, {Err(<<>>, "type_error.none.not_allowed")})
    ELSE IF fd.shape = "list" /\ v.k # "list" THEN Bad(v, {Err(<<>>, "type_error.list")})
    ELSE Collect(fd, v, [i \in DOMAIN Elements(fd, v) |->
                            ValidateSingleton(fd.type, Elements(fd, v)[i])])

\* The value validate_model reads for a field: by alias, else (with
\* allow_population_by_field_name and a distinct alias) by name.
Lookup(fd, data) ==
    IF Has(data, fd.alias) THEN [found |-> TRUE, key |-> fd.alias]
    ELSE IF Config.allow_population_by_field_name /\ fd.alt_alias /\ Has(data, fd.name)
    THEN [found |-> TRUE, key |-> fd.name]
    ELSE [found |-> FALSE]

\* The keys of data no declared field has consumed; with extra = "forbid"
\* each one is an ExtraError.
\* (faulty variant: extra = "ignore")
ExtraIgnored(T, data) == {}

ExtraKeys(T, data) ==
    IF Config.extra = "ignore" THEN {}
    ELSE Keys(data) \ {Lookup(Fields(T)[i], data).key :
                          i \in {j \in DOMAIN Fields(T) : Lookup(Fields(T)[j], data).found}}

\* validate_model on a field the data does not supply: a required field is
\* a MissingError, another takes its default.
\* (faulty variant: every field optional with default None)
MissingAsNone(fd) == Ok(Null)

Missing(fd) == IF fd.required THEN Bad(Null, {Err(<<>>, "value_error.missing")}) ELSE Ok(Null)

\* validate_model: every declared field in declaration order (missing, or
\* validated), then the extra keys.  All errors are collected.
FieldOutcome(fd, data, look) ==
    IF look.found THEN FieldValidate(fd, Get(data, look.key)) ELSE Missing(fd)

Assemble(T, data, rs) ==
    [items |-> [i \in DOMAIN rs |-> KV(Fields(T)[i].name, rs[i].value)],
     errors |-> UNION {Prefix(<<F(Fields(T)[i].alias)>>, rs[i].errors) : i \in DOMAIN rs}
                \cup {Err(<<F(key)>>, "value_error.extra") : key \in ExtraKeys(T, data)}]

ValidateModel(T, data) ==
    Assemble(T, data, [i \in DOMAIN Fields(T) |->
                          FieldOutcome(Fields(T)[i], data, Lookup(Fields(T)[i], data))])

(***************************************************************************)
(* BaseModel.dict and the serialize_model helpers.                         *)
(***************************************************************************)
\* model.dict(by_alias=...): nested instances and lists of them become
\* dicts, keyed by alias or by name.
RECURSIVE ToDict(_, _)
ToDict(v, by_alias) ==
    CASE v.k = "inst" ->
            M([i \in DOMAIN v.items |->
                 KV(IF by_alias THEN FieldOf(v.type, v.items[i].key).alias ELSE v.items[i].key,
                    ToDict(v.items[i].val, by_alias))])
      [] v.k = "map" ->
            M([i \in DOMAIN v.items |-> KV(v.items[i].key, ToDict(v.items[i].val, by_alias))])
      [] v.k = "list" -> L([i \in DOMAIN v.items |-> ToDict(v.items[i], by_alias)])
      [] OTHER -> v

RECURSIVE serialize_model_data(_)
RECURSIVE serialize_model_item(_)

serialize_model_data(data) ==
    M([i \in DOMAIN data.items |-> KV(data.items[i].key, serialize_model_item(data.items[i].val))])

serialize_model_item(val) ==
    CASE val.k = "map" -> serialize_model_data(val)
      [] val.k = "list" -> L([i \in DOMAIN val.items |-> serialize_model_item(val.items[i])])
      [] OTHER -> val

\* (faulty variant: dict(model), which leaves nested instances in place)
serialize_model_shallow(model, by_alias) ==
    M([i \in DOMAIN model.items |-> KV(model.items[i].key, model.items[i].val)])

serialize_model(model, by_alias) == serialize_model_data(ToDict(model, by_alias))

(***************************************************************************)
(* BaseModel.__setattr__ under validate_assignment = True, extra = forbid. *)
(***************************************************************************)
NoInst == [k |-> "none"]

\* (faulty variant: validate_assignment = False, extra = "allow")
SetAttrUnchecked(obj, name, value) ==
    [raised |-> "none", errors |-> {}, obj |-> Inst(obj.type, Put(obj.items, name, value))]

Assigned(obj, name, r) ==
    IF r.ok
    THEN [raised |-> "none", errors |-> {}, obj |-> Inst(obj.type, Put(obj.items, name, r.value))]
    ELSE [raised |-> "ValidationError", errors |-> Prefix(<<F(name)>>, r.errors), obj |-> obj]

SetAttr(obj, name, value) ==
    IF Config.extra # "allow" /\ name \notin FieldNames(obj.type)
    THEN [raised |-> "ValueError", errors |-> {}, obj |-> obj]
    ELSE IF Config.validate_assignment
    THEN Assigned(obj, name, FieldValidate(FieldOf(obj.type, name), value))
    ELSE Assigned(obj, name, Ok(value))

\* The instances of a tree, by the path (attribute names, list indexes) that
\* reaches them from the root; At and ReplaceAt follow such a path.
RECURSIVE InstPaths(_)
InstPaths(v) ==
    CASE v.k = "inst" ->
            {<<>>} \cup UNION {{<<F(v.items[i].key)>> \o p : p \in InstPaths(v.items[i].val)} :
                                  i \in DOMAIN v.items}
      [] v.k = "list" ->
            UNION {{<<I(i - 1)>> \o p : p \in InstPaths(v.items[i])} : i \in DOMAIN v.items}
      [] OTHER -> {}

IsField(step) == DOMAIN step = {"f"}

RECURSIVE At(_, _)
At(v, path) ==
    IF path = <<>> THEN v
    ELSE IF IsField(Head(path)) THEN At(Get(v.items, Head(path).f), Tail(path))
    ELSE At(v.items[Head(path).i + 1], Tail(path))

RECURSIVE ReplaceAt(_, _, _)
ReplaceAt(v, path, new) ==
    IF path = <<>> THEN new
    ELSE IF IsField(Head(path))
    THEN [v EXCEPT !.items = Put(v.items, Head(path).f,
                                 ReplaceAt(Get(v.items, Head(path).f), Tail(path), new))]
    ELSE [v EXCEPT !.items[Head(path).i + 1] = ReplaceAt(v.items[Head(path).i + 1], Tail(path), new)]

(***************************************************************************)
(* Names bound at module level in datamodel.py, and schema_json.           *)
(***************************************************************************)
ModuleGlobals ==
    {"logging", "json", "os", "Path", "BaseModel", "Field", "Dict", "List", "Optional",
     "Union", "logger", "BidDSJsonBaseModel", "Generator", "Network", "Scenario", "Model",
     "load_data", "dump_data", "serialize_model", "serialize_model_data",
     "_serialize_model_item"}

\* Evaluating a global name: NameError when the module never binds it.
NameDefined(name) == name \in ModuleGlobals

SchemaType(fd) ==
    IF fd.shape = "list" THEN "array" ELSE IF fd.type = "str" THEN "string" ELSE "object"

\* cls.schema(by_alias=...): the declared fields in declaration order.
Schema(T, by_alias) ==
    [title |-> Config.title,
     type |-> "object",
     properties |-> [i \in DOMAIN Fields(T) |->
                       [key |-> IF by_alias THEN Fields(T)[i].alias ELSE Fields(T)[i].name,
                        title |-> Fields(T)[i].title,
                        type |-> SchemaType(Fields(T)[i])]],
     required |-> [i \in DOMAIN Fields(T) |->
                       IF by_alias THEN Fields(T)[i].alias ELSE Fields(T)[i].name]]

\* schema_json: data = cls.schema(...), then json.dumps(data, indent=indent,
\* cls=ExtendedJSONEncoder); the keyword argument is evaluated before the call.
schema_json(T, by_alias) ==
    LET data == Schema(T, by_alias)
    IN  IF ~NameDefined("ExtendedJSONEncoder")
        THEN [raised |-> "NameError", out |-> [k |-> "none"]]
        ELSE [raised |-> "none", out |-> [k |-> "text", doc |-> data]]

(***************************************************************************)
(* Inputs: raw records as json.load or script.py's row dicts supply them.  *)
(***************************************************************************)
Opt(key, vals) == {<<>>} \cup {<<KV(key, v)>> : v \in vals}

G1 == <<"G", "1">>
B1 == <<"B", "1">>

ScalarSamples ==
    {S(<<" ", "G", "1", " ">>), S(<<"\r", "G", "1", "\f">>), S(G1), N(101), B(TRUE), Null, L(<<>>), M(<<>>)}

GenOk == M(<<KV("uid", S(G1)), KV("bus", S(B1))>>)
GenInst == Inst("Generator", <<KV("uid", S(G1)), KV("bus", S(B1))>>)
ScenInst == Inst("Scenario", <<>>)

GeneratorRecords ==
    {u \o b \o x : u \in Opt("uid", ScalarSamples), b \in Opt("bus", ScalarSamples),
                   x \in Opt("capacity", {N(100)})}

GenElems ==
    {GenOk,
     M(<<KV("uid", S(<<" ", "G", "1", " ">>)), KV("bus", N(101))>>),
     M(<<KV("uid", S(G1))>>),
     M(<<KV("uid", S(G1)), KV("bus", S(B1)), KV("capacity", N(100))>>),
     L(<<M(<<KV("uid", N(1)), KV(" G1", N(2))>>), M(<<KV("bus", N(1)), KV("B1", N(2))>>)>>),
     GenInst, Null, S(<<>>)}

GenLists == UNION {[1..n -> GenElems] : n \in 0..MaxGens}

GeneratorsSamples == {L(l) : l \in GenLists} \cup {N(5), B(TRUE), M(<<>>), S(G1), Null}

NetworkRecords ==
    {g \o x : g \in Opt("generators", GeneratorsSamples), x \in Opt("name", {S(G1)})}

NetSamples ==
    {M(<<KV("generators", L(<<GenOk>>))>>),
     M(<<KV("generators", L(<<GenOk, M(<<KV("uid", S(G1))>>)>>))>>),
     M(<<KV("generators", L(<<GenOk>>)), KV("name", S(G1))>>),
     M(<<>>),
     Inst("Network", <<KV("generators", L(<<GenInst>>))>>),
     ScenInst,
     L(<<>>),
     L(<<L(<<S(<<"g", "e", "n", "e", "r", "a", "t", "o", "r", "s">>), L(<<>>)>>)>>),
     S(<<>>), S(G1), N(5), B(TRUE), Null}

ScenSamples ==
    {M(<<>>), M(<<KV("name", S(G1))>>), ScenInst, GenInst,
     L(<<>>), L(<<S(<<"a", "b">>)>>), S(<<>>), S(G1), N(5), B(FALSE), Null}

ModelRecords ==
    {n \o s \o x : n \in Opt("network", NetSamples), s \in Opt("scenario", ScenSamples),
                   x \in Opt("name", {S(G1)})}

ScenarioRecords == Opt("name", {S(G1), M(<<>>)})

RawRecords(T) ==
    CASE T = "Generator" -> GeneratorRecords
      [] T = "Network" -> NetworkRecords
      [] T = "Scenario" -> ScenarioRecords
      [] T = "Model" -> ModelRecords

\* Values an assignment may supply, by attribute name; "capacity" is declared
\* on no model.
AttrNames == {"uid", "bus", "generators", "network", "scenario", "capacity"}

AssignElems == {M(<<KV("uid", S(<<" ", "G", "1", " ">>)), KV("bus", N(101))>>), M(<<KV("uid", S(G1))>>)}

AttrValues(name) ==
    CASE name \in {"uid", "bus"} -> {S(<<" ", "B", "1", " ">>), N(101), Null, L(<<>>)}
      [] name = "generators" ->
            {L(l) : l \in UNION {[1..n -> AssignElems] : n \in 0..MaxGens}} \cup {N(5), M(<<>>)}
      [] name = "network" -> NetSamples
      [] name = "scenario" -> ScenSamples
      [] OTHER -> {N(100)}

(***************************************************************************)
(* BidDSJsonBaseModel.load and load_data.  Directories are sequences of    *)
(* path components; cwd is the process working directory, shared by every  *)
(* thread.  stack[t] is thread t's stack of load calls in progress.        *)
(***************************************************************************)
Threads == {1, 2}

InitialCwd == <<"w">>
ExistingDirs == {<<>>, <<"w">>, <<"a">>, <<"b">>, <<"a", "sub">>}
Unset == <<"?">>

Garbage == [k |-> "garbage"]

\* The files on disk: directory, name, content (a JSON value, or text that
\* is not JSON).
Files ==
    {[dir |-> <<"a">>, name |-> "gen.json",
      content |-> M(<<KV("uid", S(<<" ", "G", "1", " ">>)), KV("bus", N(101))>>)],
     [dir |-> <<"b">>, name |-> "gen.json",
      content |-> M(<<KV("uid", S(G1)), KV("bus", S(B1)), KV("capacity", N(100))>>)],
     [dir |-> <<"a", "sub">>, name |-> "gen.json", content |-> Garbage],
     [dir |-> <<"b">>, name |-> "list.json", content |-> L(<<>>)]}

FileExists(dir, name) == \E f \in Files : f.dir = dir /\ f.name = name
FileAt(dir, name) == (CHOOSE f \in Files : f.dir = dir /\ f.name = name).content

\* The calls made: load(filename) on a class.  A relative filename has
\* abs = FALSE and dir relative to the working directory.
LoadPath(abs, dir, name) == [abs |-> abs, dir |-> dir, name |-> name]

LoadInputs ==
    {[cls |-> "Generator", filename |-> LoadPath(TRUE, <<"a">>, "gen.json")],
     [cls |-> "Generator", filename |-> LoadPath(TRUE, <<"b">>, "gen.json")],
     [cls |-> "Generator", filename |-> LoadPath(FALSE, <<"sub">>, "gen.json")],
     [cls |-> "Scenario", filename |-> LoadPath(TRUE, <<"b">>, "list.json")],
     [cls |-> "Generator", filename |-> LoadPath(TRUE, <<"a">>, "none.json")],
     [cls |-> "Generator", filename |-> LoadPath(TRUE, <<"x">>, "gen.json")]}

\* filename.parent.absolute(): a relative path is joined to the working
\* directory.
Absolute(path, cur) == IF path.abs THEN path.dir ELSE cur \o path.dir

\* os.getcwd()
\* (faulty variant: the start directory instead of the current one)
GetCwdFixed(cur) == InitialCwd

GetCwd(cur) == cur

\* The data of a frame that has not read its file.
Unread == [k |-> "unread"]

\* load_data on an open file: json.load(f_in) raises on text that is not
\* JSON (logged and re-raised), else the parsed value is returned.
load_data(content) ==
    IF content = Garbage THEN [exc |-> "JSONDecodeError", data |-> Unread]
    ELSE [exc |-> "none", data |-> content]

\* cls(**data): the exception raised, or "none".  A value that is not a
\* mapping cannot be unpacked (TypeError) and no validation starts.
Raised(r) ==
    [exc |-> IF r.ok THEN "none" ELSE "ValidationError", ret |-> IF r.ok THEN r.value ELSE NoInst]

Unpack(cls, data) ==
    IF data.k # "map" THEN [exc |-> "TypeError", ret |-> NoInst]
    ELSE Raised(Construct(cls, data.items))

\* The frame after load_data has run in directory dir with outcome r.
AfterLoadData(f, dir, r) ==
    [f EXCEPT !.readDir = dir, !.data = r.data, !.exc = r.exc, !.cause = r.exc,
              !.pc = IF r.exc = "none" THEN "validate" ELSE "except"]

\* The frame after cls(**data) has run with outcome r.
AfterTry(f, r) ==
    [f EXCEPT !.exc = r.exc, !.cause = r.exc, !.ret = r.ret,
              !.pc = IF r.exc = "none" THEN "finally" ELSE "except"]

\* "except ValidationError:" with an exception in flight: the name is
\* evaluated first; unbound, it raises NameError in place of the exception.
\* Bound, a matching exception is logged and re-raised, any other passes.
ExceptClause(exc) == IF NameDefined("ValidationError") THEN exc ELSE "NameError"

\* "finally: os.chdir(orig)": the working directory the frame leaves.
\* (faulty variants: restore only after a clean return; never restore)
FinallyOnSuccessOnly(f, cur) == IF f.exc = "none" THEN f.orig ELSE cur

FinallySkip(f, cur) == cur

FinallyChdir(f, cur) == f.orig

Top(t) == stack[t][Len(stack[t])]
Depth(t) == Len(stack[t])
SetTop(t, f) == [stack EXCEPT ![t][Len(stack[t])] = f]

NewFrame(in) ==
    [cls |-> in.cls, filename |-> in.filename, pc |-> "absolute", base_dir |-> Unset,
     orig |-> Unset, exc |-> "none", cause |-> "none", ret |-> NoInst,
     entry |-> cwd, readDir |-> Unset, data |-> Unread, switched |-> FALSE]

NoExit == [thread |-> 0, depth |-> 0]

\* Thread t is about to open its file while the working directory is not
\* its own base directory but the one another thread's load switched to.
InOthersBase(t) ==
    /\ cwd # Top(t).base_dir
    /\ \E u \in Threads \ {t} : \E d \in DOMAIN stack[u] :
          stack[u][d].switched /\ stack[u][d].base_dir = cwd

\* The frame f of thread t ends, leaving the working directory at after:
\* it is popped, its exception (if any) lands in the calling load's
\* validation, and the exit is recorded.
Leave(t, f, after) ==
    LET rest == SubSeq(stack[t], 1, Len(stack[t]) - 1)
        caller == IF rest = <<>> THEN rest
                  ELSE IF f.exc = "none" THEN rest
                  ELSE [rest EXCEPT ![Len(rest)] =
                          [@ EXCEPT !.exc = f.exc,
                                    !.cause = IF @ = "none" THEN f.exc ELSE @,
                                    !.pc = "except"]]
    IN  /\ stack' = [stack EXCEPT ![t] = caller]
        /\ lastExit' =
                          [thread |-> t, depth |-> Len(stack[t]), switched |-> f.switched, entry |-> f.entry,
                           after |-> after, base_dir |-> f.base_dir, readDir |-> f.readDir,
                           exc |-> f.exc, cause |-> f.cause, ret |-> f.ret,
                           callerBase |-> IF rest = <<>> THEN Unset ELSE rest[Len(rest)].base_dir]

\* A caller calls load; when the caller serializes its loads, only while no
\* other thread is inside one.
CallTop(t) ==
    /\ ncalls < MaxCalls
    /\ Depth(t) = 0
    /\ mode = "serialized" => \A u \in Threads : Depth(u) = 0
    /\ \E in \in LoadInputs : stack' = [stack EXCEPT ![t] = <<NewFrame(in)>>]
    /\ ncalls' = ncalls + 1
    /\ UNCHANGED <<cwd, lastExit, misread, mode, valVars>>

\* A validator running inside cls(**data) calls load (the use the docstring
\* of load names: relative paths within the file).  Validators run only once
\* load_data has returned and its data, a mapping, has been unpacked.
CallNested(t) ==
    /\ ncalls < MaxCalls
    /\ Depth(t) >= 1 /\ Depth(t) < MaxDepth
    /\ Top(t).pc = "validate"
    /\ Top(t).data.k = "map"
    /\ \E in \in LoadInputs : stack' = [stack EXCEPT ![t] = Append(@, NewFrame(in))]
    /\ ncalls' = ncalls + 1
    /\ UNCHANGED <<cwd, lastExit, misread, mode, valVars>>

\* base_dir = filename.parent.absolute()
StepAbsolute(t) ==
    /\ Depth(t) >= 1 /\ Top(t).pc = "absolute"
    /\ stack' = SetTop(t, [Top(t) EXCEPT !.base_dir = Absolute(Top(t).filename, cwd), !.pc = "getcwd"])
    /\ UNCHANGED <<cwd, lastExit, misread, mode, ncalls, valVars>>

\* orig = os.getcwd()
StepGetCwd(t) ==
    /\ Depth(t) >= 1 /\ Top(t).pc = "getcwd"
    /\ stack' = SetTop(t, [Top(t) EXCEPT !.orig = GetCwd(cwd), !.pc = "chdir"])
    /\ UNCHANGED <<cwd, lastExit, misread, mode, ncalls, valVars>>

\* os.chdir(base_dir), before the try: a missing directory raises
\* FileNotFoundError out of load with the working directory untouched.
StepChdir(t) ==
    /\ Depth(t) >= 1 /\ Top(t).pc = "chdir"
    /\ IF Top(t).base_dir \in ExistingDirs
       THEN /\ cwd' = Top(t).base_dir
            /\ stack' = SetTop(t, [Top(t) EXCEPT !.switched = TRUE, !.pc = "open"])
            /\ UNCHANGED lastExit
       ELSE /\ Leave(t, [Top(t) EXCEPT !.exc = "FileNotFoundError", !.cause = "FileNotFoundError"], cwd)
            /\ UNCHANGED cwd
    /\ UNCHANGED <<misread, mode, ncalls, valVars>>

\* load_data(filename.name): open resolves the name against the working
\* directory of that moment; then json.load(f_in).
StepOpen(t) ==
    /\ Depth(t) >= 1 /\ Top(t).pc = "open"
    /\ IF FileExists(cwd, Top(t).filename.name)
       THEN stack' = SetTop(t, AfterLoadData(Top(t), cwd, load_data(FileAt(cwd, Top(t).filename.name))))
       ELSE stack' = SetTop(t, [Top(t) EXCEPT !.readDir = cwd, !.exc = "FileNotFoundError",
                                              !.cause = "FileNotFoundError", !.pc = "except"])
    /\ misread' = (misread \/ InOthersBase(t))
    /\ UNCHANGED <<cwd, lastExit, mode, ncalls, valVars>>

\* cfg = cls(**data)
StepValidate(t) ==
    /\ Depth(t) >= 1 /\ Top(t).pc = "validate"
    /\ stack' = SetTop(t, AfterTry(Top(t), Unpack(Top(t).cls, Top(t).data)))
    /\ UNCHANGED <<cwd, lastExit, misread, mode, ncalls, valVars>>

\* except ValidationError: ... raise
StepExcept(t) ==
    /\ Depth(t) >= 1 /\ Top(t).pc = "except"
    /\ stack' = SetTop(t, [Top(t) EXCEPT !.exc = ExceptClause(Top(t).exc), !.pc = "finally"])
    /\ UNCHANGED <<cwd, lastExit, misread, mode, ncalls, valVars>>

\* finally: os.chdir(orig); then load returns or raises
StepFinally(t) ==
    /\ Depth(t) >= 1 /\ Top(t).pc = "finally"
    /\ cwd' = FinallyChdir(Top(t), cwd)
    /\ Leave(t, Top(t), cwd')
    /\ UNCHANGED <<misread, mode, ncalls, valVars>>

InitLoad ==
    /\ inst = NoInst
    /\ last = [op |-> "idle"]
    /\ cwd = InitialCwd
    /\ stack = [t \in Threads |-> <<>>]
    /\ lastExit = NoExit
    /\ misread = FALSE
    /\ mode \in {"serialized", "concurrent"}
    /\ ncalls = 0

NextLoad ==
    \E t \in Threads :
        \/ CallTop(t)
        \/ CallNested(t)
        \/ StepAbsolute(t)
        \/ StepGetCwd(t)
        \/ StepChdir(t)
        \/ StepOpen(t)
        \/ StepValidate(t)
        \/ StepExcept(t)
        \/ StepFinally(t)

SpecLoad == InitLoad /\ [][NextLoad]_vars

(***************************************************************************)
(* The caller's operations on models: what script.py and any client do.    *)
(* inst is the instance the caller holds, last the last operation with its *)
(* inputs and outcome.                                                     *)
(***************************************************************************)
Ready == last.op = "idle"

\* x = cls(**data)
Built(op, r) ==
    [op |-> op, raised |-> IF r.ok THEN "none" ELSE "ValidationError", errors |-> r.errors,
     ret |-> IF r.ok THEN r.value ELSE NoInst]

DoConstruct ==
    /\ Ready
    /\ inst = NoInst
    /\ \E T \in EntityTypes : \E data \in RawRecords(T) :
         /\ last' = [cls |-> T, data |-> data] @@ Built("construct", Construct(T, data))
         /\ inst' = last'.ret
    /\ UNCHANGED loadVars

\* obj.name = value, on the held instance or one nested in it
DoSetAttr ==
    /\ Ready
    /\ inst # NoInst
    /\ \E path \in InstPaths(inst) : \E name \in AttrNames : \E value \in AttrValues(name) :
         /\ last' = [op |-> "setattr", path |-> path, name |-> name, value |-> value,
                     before |-> inst] @@ SetAttr(At(inst, path), name, value)
         /\ inst' = ReplaceAt(inst, path, last'.obj)
    /\ UNCHANGED loadVars

\* serialize_model(x, by_alias)
DoSerialize ==
    /\ Ready
    /\ inst # NoInst
    /\ \E by_alias \in BOOLEAN :
         last' = [op |-> "serialize", by_alias |-> by_alias,
                  out |-> serialize_model(inst, by_alias)]
    /\ UNCHANGED <<inst, loadVars>>

\* type(x)(**serialized)
DoReload ==
    /\ inst # NoInst
    /\ last.op = "serialize"
    /\ last' = [by_alias |-> last.by_alias] @@ Built("reload", Construct(inst.type, last.out.items))
    /\ UNCHANGED <<inst, loadVars>>

\* cls.schema_json(by_alias=...)
DoSchemaJson ==
    /\ Ready
    /\ \E T \in EntityTypes : \E by_alias \in BOOLEAN :
         last' = [op |-> "schema_json", cls |-> T, by_alias |-> by_alias] @@ schema_json(T, by_alias)
    /\ UNCHANGED <<inst, loadVars>>

\* the caller drops the instance
DoDiscard ==
    /\ Ready
    /\ inst # NoInst
    /\ inst' = NoInst
    /\ last' = [op |-> "idle"]
    /\ UNCHANGED loadVars

\* the caller has looked at the outcome of its last operation and goes on
DoProceed ==
    /\ ~Ready
    /\ last' = [op |-> "idle"]
    /\ UNCHANGED <<inst, loadVars>>

InitLoadIdle ==
    /\ cwd = InitialCwd
    /\ stack = [t \in Threads |-> <<>>]
    /\ lastExit = NoExit
    /\ misread = FALSE
    /\ mode = "serialized"
    /\ ncalls = 0

Init ==
    /\ inst = NoInst
    /\ last = [op |-> "idle"]
    /\ InitLoadIdle

Next ==
    \/ DoConstruct
    \/ DoSetAttr
    \/ DoSerialize
    \/ DoReload
    \/ DoSchemaJson
    \/ DoDiscard
    \/ DoProceed

Spec == Init /\ [][Next]_vars

(***************************************************************************)
(* What the claims speak of, stated on the raw record and on the instance  *)
(* alone (not through the validator).                                      *)
(***************************************************************************)
IsModelType(type) == type \in EntityTypes

\* The nested raw records of a record: for each declared field of model
\* type that is present, the mappings supplied for it (directly, or as the
\* elements of a list), with the loc that reaches them.
NestedRecords(T, data) ==
    UNION {LET fd == Fields(T)[j]
               v == Get(data, fd.name)
           IN  IF ~IsModelType(fd.type) THEN {}
               ELSE IF fd.shape = "singleton"
               THEN IF v.k = "map" THEN {[loc |-> <<F(fd.name)>>, type |-> fd.type, data |-> v.items]}
                    ELSE {}
               ELSE IF v.k = "list"
               THEN {[loc |-> <<F(fd.name), I(i - 1)>>, type |-> fd.type, data |-> v.items[i].items] :
                        i \in {n \in DOMAIN v.items : v.items[n].k = "map"}}
               ELSE {}
           : j \in {n \in DOMAIN Fields(T) : Has(data, Fields(T)[n].name)}}

RECURSIVE UndeclaredLocs(_, _)
UndeclaredLocs(T, data) ==
    {<<F(key)>> : key \in Keys(data) \ FieldNames(T)}
    \cup UNION {{r.loc \o l : l \in UndeclaredLocs(r.type, r.data)} : r \in NestedRecords(T, data)}

RECURSIVE MissingLocs(_, _)
MissingLocs(T, data) ==
    {<<F(name)>> : name \in {n \in FieldNames(T) : FieldOf(T, n).required} \ Keys(data)}
    \cup UNION {{r.loc \o l : l \in MissingLocs(r.type, r.data)} : r \in NestedRecords(T, data)}

TypeErrors == {"type_error.str", "type_error.list", "type_error.dict", "type_error.none.not_allowed", "type_error"}

RECURSIVE Plain(_)
Plain(v) ==
    CASE v.k \in {"str", "num", "bool", "null"} -> TRUE
      [] v.k = "list" -> \A i \in DOMAIN v.items : Plain(v.items[i])
      [] v.k = "map" -> \A i \in DOMAIN v.items : Plain(v.items[i].val)
      [] OTHER -> FALSE

\* An instance conforms to its type: exactly the declared fields, each
\* holding a value of the declared semantic type.
RECURSIVE Conforms(_, _)
Conforms(T, v) ==
    /\ v.k = "inst"
    /\ v.type = T
    /\ Len(v.items) = Len(Fields(T))
    /\ Keys(v.items) = FieldNames(T)
    /\ \A i \in DOMAIN v.items :
         LET fd == FieldOf(T, v.items[i].key)
             x == v.items[i].val
         IN  IF fd.shape = "list"
             THEN x.k = "list" /\ \A j \in DOMAIN x.items : Conforms(fd.type, x.items[j])
             ELSE IF fd.type = "str" THEN x.k = "str"
             ELSE Conforms(fd.type, x)

Constructed == last.op = "construct"

\* C2: constructing any model from a raw record that holds an undeclared
\* field name, at the top level or in a nested record or list element,
\* raises ValidationError with an extra-field error at that name's loc, and
\* no instance is returned.
C2_Strictness ==
    Constructed /\ UndeclaredLocs(last.cls, last.data) # {} =>
        /\ last.raised = "ValidationError"
        /\ last.ret = NoInst
        /\ inst = NoInst
        /\ \A loc \in UndeclaredLocs(last.cls, last.data) : Err(loc, "value_error.extra") \in last.errors

C2_Witness ==
    /\ Constructed
    /\ last.cls = "Network"
    /\ <<F("generators"), I(1), F("capacity")>> \in UndeclaredLocs(last.cls, last.data)
    /\ last.raised = "ValidationError"

\* C3: constructing any model from a raw record that omits a required
\* field, at the top level or in a nested record or list element, raises
\* ValidationError with a missing-field error at that field's loc, and no
\* instance, partial or otherwise, is returned.
C3_RequiredFields ==
    Constructed /\ MissingLocs(last.cls, last.data) # {} =>
        /\ last.raised = "ValidationError"
        /\ last.ret = NoInst
        /\ inst = NoInst
        /\ \A loc \in MissingLocs(last.cls, last.data) : Err(loc, "value_error.missing") \in last.errors

C3_Witness ==
    /\ Constructed
    /\ last.cls = "Network"
    /\ MissingLocs(last.cls, last.data) = {<<F("generators"), I(1), F("bus")>>}
    /\ last.ret = NoInst

TypeErrorAt(loc) == \E e \in last.errors : e.loc = loc /\ e.type \in TypeErrors
NoErrorAt(loc) == \A e \in last.errors : e.loc # loc

\* C4 as stated: a Generator record whose uid or bus is not a string is
\* rejected with a type error at that field.
C4_AsStated ==
    Constructed /\ last.cls = "Generator" =>
        \A f \in {"uid", "bus"} :
            Has(last.data, f) /\ Get(last.data, f).k # "str" =>
                last.raised = "ValidationError" /\ TypeErrorAt(<<F(f)>>)

\* C4 amended: for uid and bus a list, mapping or null is rejected with a
\* type error at the field, while a number or boolean is accepted and stored
\* as its string form; a non-list for generators is rejected with a type
\* error; for network and scenario a number, boolean, null or non-empty
\* string is rejected with a type error, while an empty list or empty
\* string is taken as the empty record.
C4_Amended ==
    Constructed =>
        \A j \in DOMAIN Fields(last.cls) :
            LET fd == Fields(last.cls)[j]
                f == fd.name
                v == Get(last.data, f)
            IN  Has(last.data, f) =>
                  CASE fd.type = "str" ->
                         /\ v.k \in {"list", "map", "null"} =>
                                last.raised = "ValidationError" /\ TypeErrorAt(<<F(f)>>)
                         /\ v.k \in {"num", "bool"} =>
                                /\ NoErrorAt(<<F(f)>>)
                                /\ last.ret # NoInst =>
                                     Get(last.ret.items, f) =
                                        S(IF v.k = "num" THEN IntStr(v.n) ELSE BoolStr(v.b))
                    [] fd.shape = "list" ->
                         v.k # "list" => last.raised = "ValidationError" /\ TypeErrorAt(<<F(f)>>)
                    [] OTHER ->
                         /\ v.k \in {"num", "bool", "null"} \/ (v.k = "str" /\ v.s # <<>>) =>
                                last.raised = "ValidationError" /\ TypeErrorAt(<<F(f)>>)
                         /\ (v.k = "list" /\ v.items = <<>>) \/ (v.k = "str" /\ v.s = <<>>) =>
                                {e \in last.errors : e.loc # <<>> /\ Head(e.loc) = F(f)}
                                    = Prefix(<<F(f)>>, Construct(fd.type, <<>>).errors)

C4_Witness ==
    /\ Constructed
    /\ last.cls = "Generator"
    /\ Has(last.data, "bus") /\ Get(last.data, "bus") = N(101)
    /\ Has(last.data, "uid") /\ Get(last.data, "uid") = B(TRUE)
    /\ last.ret = Inst("Generator", <<KV("uid", S(<<"T", "r", "u", "e">>)), KV("bus", S(<<"1", "0", "1">>))>>)

\* C5: serialize_model of the held instance holds only plain scalars, lists
\* and mappings, and constructing the instance's class from it succeeds and
\* returns an instance equal to the held one, with by_alias true or false.
C5_RoundTrip ==
    /\ last.op = "serialize" => Plain(last.out)
    /\ last.op = "reload" => last.raised = "none" /\ last.ret = inst

C5_Witness ==
    /\ last.op = "reload"
    /\ ~last.by_alias
    /\ inst.type = "Model"
    /\ Len(Get(Get(inst.items, "network").items, "generators").items) = 2
    /\ last.ret = inst

\* C7 as stated: schema_json returns a schema document for every model
\* class and by_alias flag.
C7_SchemaReturned ==
    last.op = "schema_json" => last.raised = "none" /\ last.out.k = "text"

\* C8: the held instance always conforms to its class; an assignment that
\* raises leaves it unchanged; an assignment to an undeclared name, or of a
\* value whose field validation fails, raises.
C8_InstancesConform ==
    /\ inst # NoInst => Conforms(inst.type, inst)
    /\ last.op = "setattr" =>
         LET T == At(last.before, last.path).type
         IN  /\ last.raised # "none" => inst = last.before
             /\ last.name \notin FieldNames(T) => last.raised = "ValueError"
             /\ last.name \in FieldNames(T) /\ last.value.k \in {"null", "map"} /\ FieldOf(T, last.name).type = "str"
                    => last.raised = "ValidationError"

C8_Witness ==
    /\ last.op = "setattr"
    /\ last.path = <<F("network"), F("generators"), I(0)>>
    /\ last.name = "bus"
    /\ last.value = L(<<>>)
    /\ last.raised = "ValidationError"
    /\ inst = last.before

AllIdle == \A t \in Threads : Depth(t) = 0
Exited == lastExit.depth >= 1

\* C1: with the loads made one after another (nested ones included), every
\* load leaves the working directory as it was when the load was called,
\* whether it returned or raised, and with no load in progress the working
\* directory is the initial one.
C1_ContextRestored ==
    mode = "serialized" =>
        /\ Exited => lastExit.after = lastExit.entry
        /\ AllIdle => cwd = InitialCwd

C1_Witness ==
    /\ mode = "serialized"
    /\ Exited /\ lastExit.depth = 1
    /\ lastExit.switched
    /\ lastExit.base_dir # lastExit.entry
    /\ lastExit.cause = "ValidationError"
    /\ lastExit.after = lastExit.entry
    /\ ncalls = MaxCalls
    /\ AllIdle

\* C6 as stated: a load that raises surfaces the exception of the failure
\* underneath: FileNotFoundError for a missing file, JSONDecodeError for
\* text that is not JSON, ValidationError for content that fails validation.
C6_ErrorKinds ==
    Exited /\ lastExit.exc # "none" => lastExit.exc = lastExit.cause

\* C9: when the caller serializes its loads, every load opens its file in
\* its own base directory, none opens it in the directory another load
\* switched to, and with no load in progress the working directory is the
\* initial one.  (Unserialized, both fail in one run: the witness.)
C9_SerializedSafe ==
    mode = "serialized" =>
        /\ ~misread
        /\ \A t \in Threads : \A d \in DOMAIN stack[t] :
              stack[t][d].readDir # Unset => stack[t][d].readDir = stack[t][d].base_dir
        /\ Exited /\ lastExit.readDir # Unset => lastExit.readDir = lastExit.base_dir
        /\ AllIdle => cwd = InitialCwd

C9_Witness ==
    /\ mode = "concurrent"
    /\ AllIdle
    /\ ncalls = 2
    /\ cwd # InitialCwd
    /\ misread

\* C10: in one thread, a load called from inside another load's validation
\* leaves the working directory at the outer load's base directory, whether
\* it returned or raised; the outermost load leaves it as it was before the
\* call; and a validation in progress runs in its own load's base directory.
C10_NestedLifo ==
    mode = "serialized" =>
        /\ Exited /\ lastExit.depth >= 2 => lastExit.after = lastExit.callerBase
        /\ Exited /\ lastExit.depth = 1 => lastExit.after = lastExit.entry
        /\ \A t \in Threads : Depth(t) >= 1 /\ Top(t).pc = "validate" => cwd = Top(t).base_dir

C10_Witness ==
    /\ mode = "serialized"
    /\ Exited /\ lastExit.depth = MaxDepth
    /\ lastExit.switched
    /\ lastExit.exc # "none"
    /\ lastExit.callerBase \notin {InitialCwd, lastExit.base_dir}
    /\ lastExit.after = lastExit.callerBase

====
